---------------------------- MODULE Spec2Model ----------------------------
(***************************************************************************)
(* crunchy: a password validator.  The Validator of the options-based      *)
(* implementation (Check, Rate, the lazily built dictionary index, the     *)
(* hashed-dictionary lookup and the haveibeenpwned step) together with the *)
(* string helpers it calls (normalize, reverse, countUniqueChars,          *)
(* countSystematicChars).                                                  *)
(*                                                                         *)
(* A Go string is modelled as the sequence of its code points; its bytes   *)
(* are the UTF-8 encoding of that sequence (Utf8), so len(s) is a byte     *)
(* count while range loops and []rune(s) see code points.  Only valid      *)
(* UTF-8 text with code points below 256 is modelled.                      *)
(***************************************************************************)
EXTENDS Integers, Sequences, FiniteSets, TLC

(***************************************************************************)
(* Go strings                                                              *)
(***************************************************************************)

\* The UTF-8 encoding of one code point below 2048.
Utf8Rune(c) ==
    IF c < 128 THEN <<c>> ELSE <<192 + (c \div 64), 128 + (c % 64)>>

RECURSIVE Utf8(_)
\* []byte(s): the bytes of a string.
Utf8(s) ==
    IF s = <<>> THEN <<>> ELSE Utf8Rune(Head(s)) \o Utf8(Tail(s))

\* Go's len(s) of a string: the number of bytes.
len(s) == Len(Utf8(s))

\* unicode.IsSpace for Latin-1, as strings.TrimSpace uses it.
IsSpace(c) == c \in {9, 10, 11, 12, 13, 32, 133, 160}

\* unicode.ToLower for Latin-1.
ToLowerRune(c) ==
    IF (c >= 65 /\ c <= 90) \/ (c >= 192 /\ c <= 222 /\ c # 215)
    THEN c + 32
    ELSE c

\* strings.ToLower
ToLower(s) == [i \in 1..Len(s) |-> ToLowerRune(s[i])]

RECURSIVE TrimLeft(_)
TrimLeft(s) ==
    IF s # <<>> /\ IsSpace(Head(s)) THEN TrimLeft(Tail(s)) ELSE s

RECURSIVE TrimRight(_)
TrimRight(s) ==
    IF s # <<>> /\ IsSpace(s[Len(s)])
    THEN TrimRight(SubSeq(s, 1, Len(s) - 1))
    ELSE s

\* strings.TrimSpace
TrimSpace(s) == TrimRight(TrimLeft(s))

\* unicode.IsLetter, unicode.IsUpper, unicode.IsNumber for Latin-1.
IsLetter(c) ==
    \/ c >= 65 /\ c <= 90
    \/ c >= 97 /\ c <= 122
    \/ c \in {170, 181, 186}
    \/ c >= 192 /\ c <= 255 /\ c # 215 /\ c # 247

IsUpper(c) ==
    \/ c >= 65 /\ c <= 90
    \/ c >= 192 /\ c <= 222 /\ c # 215

IsNumber(c) ==
    \/ c >= 48 /\ c <= 57
    \/ c \in {178, 179, 185, 188, 189, 190}

\* The regular expression classes of Check: [0-9], \w and \s (RE2, ASCII).
ReDigit(c) == c >= 48 /\ c <= 57

ReWord(c) ==
    \/ c >= 48 /\ c <= 57
    \/ c >= 65 /\ c <= 90
    \/ c >= 97 /\ c <= 122
    \/ c = 95

ReSpace(c) == c \in {9, 10, 12, 13, 32}

(***************************************************************************)
(* String helpers of the package                                           *)
(***************************************************************************)

\* countUniqueChars returns the amount of unique runes in a string
countUniqueChars(s) == Cardinality({s[i] : i \in 1..Len(s)})

\* countSystematicChars returns how many runes in a string are part of a
\* sequence ('abcdef', '654321')
countSystematicChars(s) ==
    Cardinality({i \in 2..Len(s) :
                    s[i] = s[i - 1] + 1 \/ s[i] = s[i - 1] - 1})

\* reverse returns the reversed form of a string
reverse(s) == [i \in 1..Len(s) |-> s[Len(s) + 1 - i]]

\* normalize returns the trimmed and lowercase version of a string
normalize(s) == TrimSpace(ToLower(s))

(***************************************************************************)
(* smetrics.WagnerFischer(a, b, icost, dcost, scost): the edit distance of *)
(* two strings taken byte by byte, computed row by row.                    *)
(***************************************************************************)

RECURSIVE WFRow(_, _, _, _, _, _, _)
\* One row of the table: row2 holds the cells 0..Len(row2)-1 computed so far.
WFRow(row1, row2, ach, b, icost, dcost, scost) ==
    LET j == Len(row2) IN
    IF j > Len(b) THEN row2
    ELSE LET ins == row2[j] + icost
             del == row1[j + 1] + dcost
             sub == row1[j] + scost
             cell == IF ach = b[j] THEN row1[j]
                     ELSE IF ins < del /\ ins < sub THEN ins
                     ELSE IF del < sub THEN del
                     ELSE sub
         IN WFRow(row1, Append(row2, cell), ach, b, icost, dcost, scost)

RECURSIVE WFRows(_, _, _, _, _, _, _)
WFRows(row1, i, a, b, icost, dcost, scost) ==
    IF i > Len(a) THEN row1
    ELSE WFRows(WFRow(row1, <<i * dcost>>, a[i], b, icost, dcost, scost),
                i + 1, a, b, icost, dcost, scost)

WagnerFischer(a, b, icost, dcost, scost) ==
    LET ab == Utf8(a)
        bb == Utf8(b)
        first == [k \in 1..(Len(bb) + 1) |-> (k - 1) * icost]
        last == WFRows(first, 1, ab, bb, icost, dcost, scost)
    IN last[Len(last)]


(***************************************************************************)
(* Errors.  A Go error value is a record: its kind, and for the dictionary *)
(* errors the offending word and the measured distance.                    *)
(***************************************************************************)

Nil == [kind |-> "nil", word |-> <<>>, dist |-> 0]

Err(kind) == [kind |-> kind, word |-> <<>>, dist |-> 0]

\* &DictionaryError{err, word, distance}
DictionaryError(kind, word, dist) ==
    [kind |-> kind, word |-> word, dist |-> dist]

\* &HashedDictionaryError{err, word}
HashedDictionaryError(kind, word) ==
    [kind |-> kind, word |-> word, dist |-> 0]

(***************************************************************************)
(* Options and construction                                                *)
(***************************************************************************)

DefaultMinLength == 8
DefaultMinDiff == 5
DefaultMinDist == 3

\* NewValidatorWithOpts returns a new password validator with custom settings
NewValidatorWithOpts(options) ==
    LET o1 == IF options.MinLength <= 0
              THEN [options EXCEPT !.MinLength = DefaultMinLength]
              ELSE options
        o2 == IF o1.MinDiff <= 0
              THEN [o1 EXCEPT !.MinDiff = DefaultMinDiff]
              ELSE o1
        o3 == IF o2.MinDist < 0
              THEN [o2 EXCEPT !.MinDist = DefaultMinDist]
              ELSE o2
    IN [options |-> o3,
        once |-> [done |-> 0, m |-> 0],
        wordsMaxLen |-> 0,
        words |-> {},
        hashedWords |-> [k \in {} |-> <<>>]]

(***************************************************************************)
(* Hashing.  A configured hasher maps bytes to a fixed-length digest; the  *)
(* two hashers of the model are small checksums with two-byte digests.     *)
(***************************************************************************)

RECURSIVE SumBytes(_)
SumBytes(bs) == IF bs = <<>> THEN 0 ELSE Head(bs) + SumBytes(Tail(bs))

RECURSIVE WeightedBytes(_, _)
WeightedBytes(bs, i) ==
    IF bs = <<>> THEN 0 ELSE i * Head(bs) + WeightedBytes(Tail(bs), i + 1)

\* hasher.Sum(nil) after hasher.Write(bs)
HasherSum(hasher, bs) ==
    IF hasher = "fletcher"
    THEN <<SumBytes(bs) % 256, WeightedBytes(bs, 1) % 256>>
    ELSE <<(SumBytes(bs) + 171) % 256, (Len(bs) * 37 + 94) % 256>>

\* hashsum returns the digest of a string as a string of raw bytes
hashsum(s, hasher) == HasherSum(hasher, Utf8(s))

HexDigit(n) == IF n < 10 THEN 48 + n ELSE 87 + n

RECURSIVE EncodeToString(_)
\* hex.EncodeToString
EncodeToString(bs) ==
    IF bs = <<>> THEN <<>>
    ELSE <<HexDigit(Head(bs) \div 16), HexDigit(Head(bs) % 16)>>
         \o EncodeToString(Tail(bs))

\* encoding/hex fromHexChar: the value of a hex digit, or -1
FromHexChar(c) ==
    IF c >= 48 /\ c <= 57 THEN c - 48
    ELSE IF c >= 97 /\ c <= 102 THEN c - 87
    ELSE IF c >= 65 /\ c <= 70 THEN c - 55
    ELSE -1

\* hex.DecodeString(s): [ok, bytes]; an odd length or a byte that is no hex
\* digit is an error.
DecodeString(s) ==
    LET bs == Utf8(s)
        good == Len(bs) % 2 = 0
                /\ \A i \in 1..Len(bs) : FromHexChar(bs[i]) >= 0
    IN IF good
       THEN [ok |-> TRUE,
             bytes |-> [i \in 1..(Len(bs) \div 2) |->
                          16 * FromHexChar(bs[2 * i - 1]) + FromHexChar(bs[2 * i])]]
       ELSE [ok |-> FALSE, bytes |-> <<>>]

(***************************************************************************)
(* The dictionary index                                                    *)
(***************************************************************************)

\* m[key] = value on a Go map
MapPut(m, key, value) ==
    [k \in (DOMAIN m) \cup {key} |-> IF k = key THEN value ELSE m[k]]

RECURSIVE hashWord(_, _, _)
\* for _, hasher := range v.options.Hashers { v.hashedWords[hashsum(nw, hasher)] = nw }
hashWord(hashedWords, hashers, nw) ==
    IF hashers = <<>> THEN hashedWords
    ELSE hashWord(MapPut(hashedWords, hashsum(nw, Head(hashers)), nw),
                  Tail(hashers), nw)

\* indexWord hashing only the words that pass the length floor.
indexWordHashIndexedOnly(v, line) ==
    LET nw == normalize(line)
        nwlen == len(nw)
        indexed == nwlen >= v.options.MinLength - v.options.MinDist
    IN [v EXCEPT
          !.wordsMaxLen = IF nwlen > @ THEN nwlen ELSE @,
          !.words = IF indexed THEN @ \cup {nw} ELSE @,
          !.hashedWords = IF indexed
                          THEN hashWord(@, v.options.Hashers, nw)
                          ELSE @]

\* The body of the scanner loop of indexDictionaries for one line.
indexWord(v, line) ==
    LET nw == normalize(line)
        nwlen == len(nw)
    IN [v EXCEPT
          !.wordsMaxLen = IF nwlen > @ THEN nwlen ELSE @,
          !.words = IF nwlen >= v.options.MinLength - v.options.MinDist
                    THEN @ \cup {nw}
                    ELSE @,
          !.hashedWords = hashWord(@, v.options.Hashers, nw)]

RECURSIVE indexLines(_, _)
indexLines(v, lines) ==
    IF lines = <<>> THEN v
    ELSE indexLines(indexWord(v, Head(lines)), Tail(lines))

\* indexDictionaries parses dictionaries/wordlists; dicts are the lines of
\* the files under DictionaryPath.
indexDictionaries(v, dicts) ==
    IF v.options.DictionaryPath = "" THEN v ELSE indexLines(v, dicts)

\* IndexDictionaries parses dictionaries/wordlists once (a call that runs
\* alone: once.Do runs the body unless it has already run).
IndexDictionaries(v, dicts) ==
    IF v.once.done = 1 THEN v
    ELSE [indexDictionaries(v, dicts) EXCEPT !.once.done = 1]

\* foundInDictionaries after its call of IndexDictionaries: the errors it
\* can return (ranging over a map visits the words in any order).
lookup(v, s) ==
    LET pw == normalize(s)
        revpw == reverse(pw)
        pwlen == len(pw)
        pwindex == DecodeString(pw)
        \* each word with its distance to pw and, where that is above
        \* MinDist, its distance to revpw
        measured == {LET d1 == WagnerFischer(w, pw, 1, 1, 1)
                     IN IF d1 <= v.options.MinDist
                        THEN DictionaryError("ErrMangledDictionary", w, d1)
                        ELSE DictionaryError("ErrMangledDictionary", w,
                                             WagnerFischer(w, revpw, 1, 1, 1)) :
                        w \in v.words}
        mangled == {e \in measured : e.dist <= v.options.MinDist}
    IN IF pwlen <= v.wordsMaxLen /\ pw \in v.words
       THEN {DictionaryError("ErrDictionary", pw, 0)}
       ELSE IF pwlen <= v.wordsMaxLen /\ revpw \in v.words
       THEN {DictionaryError("ErrMangledDictionary", revpw, 0)}
       ELSE IF pwindex.ok /\ pwindex.bytes \in DOMAIN v.hashedWords
       THEN {HashedDictionaryError("ErrHashedDictionary",
                                   v.hashedWords[pwindex.bytes])}
       ELSE IF pwlen <= v.wordsMaxLen + v.options.MinDist /\ mangled # {}
       THEN mangled
       ELSE {Nil}

\* foundInDictionaries returns whether a (mangled) string exists in the
\* indexed dictionaries: the validator after the call, and the error.
foundInDictionaries(v, dicts, s) ==
    LET v1 == IndexDictionaries(v, dicts)
    IN {[v |-> v1, err |-> e] : e \in lookup(v1, s)}

(***************************************************************************)
(* Check and Rate                                                          *)
(***************************************************************************)

\* The conditions of Check's pre-dictionary rejections, one per if.
isEmpty(password) == TrimSpace(password) = <<>>

isTooShort(options, password) == len(password) < options.MinLength

hasTooFewChars(options, password) ==
    countUniqueChars(password) < options.MinDiff

lacksDigit(options, password) ==
    options.MustContainDigit
    /\ ~ \E i \in 1..Len(password) : ReDigit(password[i])

lacksSymbol(options, password) ==
    options.MustContainSymbol
    /\ ~ \E i \in 1..Len(password) :
            ~ ReWord(password[i]) /\ ~ ReSpace(password[i])

\* maxrepeat := 3.0 + (0.09 * float64(len(password))), compared as int(maxrepeat)
isTooSystematic(password) ==
    countSystematicChars(password) > 3 + ((9 * len(password)) \div 100)

\* preDictionaryChecks with the unique-character check moved before the
\* length check.
preDictionaryChecksUniqueFirst(options, password) ==
    IF isEmpty(password) THEN Err("ErrEmpty")
    ELSE IF hasTooFewChars(options, password) THEN Err("ErrTooFewChars")
    ELSE IF isTooShort(options, password) THEN Err("ErrTooShort")
    ELSE IF lacksDigit(options, password) THEN Err("ErrNoDigits")
    ELSE IF lacksSymbol(options, password) THEN Err("ErrNoSymbols")
    ELSE IF isTooSystematic(password) THEN Err("ErrTooSystematic")
    ELSE Nil

\* Check up to its call of foundInDictionaries: the first rejection, or Nil.
preDictionaryChecks(options, password) ==
    IF isEmpty(password) THEN Err("ErrEmpty")
    ELSE IF isTooShort(options, password) THEN Err("ErrTooShort")
    ELSE IF hasTooFewChars(options, password) THEN Err("ErrTooFewChars")
    ELSE IF lacksDigit(options, password) THEN Err("ErrNoDigits")
    ELSE IF lacksSymbol(options, password) THEN Err("ErrNoSymbols")
    ELSE IF isTooSystematic(password) THEN Err("ErrTooSystematic")
    ELSE Nil

\* The answers of the haveibeenpwned service for a password.
OracleAnswers == {"not_found", "found", "unreachable"}

\* foundInHIBP(password), the service answering hibp.
foundInHIBP(password, hibp) ==
    IF hibp = "found" THEN Err("ErrHIBP")
    ELSE IF hibp = "unreachable" THEN Err("ErrHIBPUnreachable")
    ELSE Nil

\* afterDictionary asking the service before it looks at err.
afterDictionaryOracleFirst(v, err, password, hibp) ==
    IF v.options.CheckHIBP /\ foundInHIBP(password, hibp) # Nil
    THEN [v |-> v, err |-> foundInHIBP(password, hibp), hibpCalls |-> 1]
    ELSE [v |-> v, err |-> err,
          hibpCalls |-> IF v.options.CheckHIBP THEN 1 ELSE 0]

\* Check after foundInDictionaries returned err.
afterDictionary(v, err, password, hibp) ==
    IF err # Nil THEN [v |-> v, err |-> err, hibpCalls |-> 0]
    ELSE IF v.options.CheckHIBP
    THEN [v |-> v, err |-> foundInHIBP(password, hibp), hibpCalls |-> 1]
    ELSE [v |-> v, err |-> Nil, hibpCalls |-> 0]

\* Check validates a password for common flaws: the outcomes of one call
\* that runs alone, each the validator after it, the error returned and
\* the number of calls made to the haveibeenpwned service.
Check(v, dicts, password, hibp) ==
    LET pre == preDictionaryChecks(v.options, password)
    IN IF pre # Nil
       THEN {[v |-> v, err |-> pre, hibpCalls |-> 0]}
       ELSE {afterDictionary(r.v, r.err, password, hibp) :
                r \in foundInDictionaries(v, dicts, password)}

\* The counts Rate's loop over the runes of the password makes.
runeCounts(password) ==
    LET I == 1..Len(password)
    IN [letters |->
            Cardinality({i \in I : IsLetter(password[i]) /\ ~ IsUpper(password[i])}),
        uLetters |->
            Cardinality({i \in I : IsLetter(password[i]) /\ IsUpper(password[i])}),
        numbers |->
            Cardinality({i \in I : ~ IsLetter(password[i]) /\ IsNumber(password[i])}),
        symbols |->
            Cardinality({i \in I : ~ IsLetter(password[i]) /\ ~ IsNumber(password[i])})]

\* Rate after Check accepted the password.
rating(password) ==
    LET l == len(password)
        systematics == countSystematicChars(password)
        repeats == l - countUniqueChars(password)
        c == runeCounts(password)
        n1 == l * 4
        n2 == IF c.uLetters > 0 THEN n1 + (l - c.uLetters) * 2 ELSE n1
        n3 == IF c.letters > 0 THEN n2 + (l - c.letters) * 2 ELSE n2
        n4 == n3 + c.numbers * 4
        n5 == n4 + c.symbols * 6
        n6 == IF l = c.letters + c.uLetters
              THEN n5 - (c.letters + c.uLetters)
              ELSE n5
        n7 == IF l = c.numbers THEN n6 - c.numbers * 4 ELSE n6
        n8 == n7 - repeats * 4
        n == n8 - systematics * 3
    IN IF n < 0 THEN 0 ELSE IF n > 100 THEN 100 ELSE n

\* Rate going on to grade a password that Check rejected.
RateIgnoringError(v, dicts, password, hibp) ==
    {[v |-> c.v, score |-> rating(password), err |-> c.err,
      hibpCalls |-> c.hibpCalls] :
        c \in Check(v, dicts, password, hibp)}

\* Rate grades a password's strength from 0 (weak) to 100 (strong).
Rate(v, dicts, password, hibp) ==
    {IF c.err # Nil
     THEN [v |-> c.v, score |-> 0, err |-> c.err, hibpCalls |-> c.hibpCalls]
     ELSE [v |-> c.v, score |-> rating(password), err |-> Nil,
           hibpCalls |-> c.hibpCalls] :
        c \in Check(v, dicts, password, hibp)}

(***************************************************************************)
(* Inputs                                                                  *)
(***************************************************************************)

\* The longest password over Alphabet that is tried.
MaxLen == 3

\* ' ', '1', 'a', 'b' and the two-byte symbol U+00A7.
Alphabet == {32, 49, 97, 98, 167}

RECURSIVE Strs(_)
Strs(n) ==
    IF n = 0 THEN {<<>>}
    ELSE LET S == Strs(n - 1)
         IN S \cup {Append(s, c) : s \in {x \in S : Len(x) = n - 1}, c \in Alphabet}

\* Passwords with capitals, and longer ones: "A§", "aB", "Ab1", "1Ba",
\* "AB1b", "ababa", "a1b1Ab", "b1§a", "Ab1§ a1B§b".
OtherPasswords ==
    {<<65, 167>>,
     <<97, 66>>,
     <<65, 98, 49>>,
     <<49, 66, 97>>,
     <<65, 66, 49, 98>>,
     <<97, 98, 97, 98, 97>>,
     <<97, 49, 98, 49, 65, 98>>,
     <<98, 49, 167, 97>>,
     <<65, 98, 49, 167, 32, 97, 49, 66, 167, 98>>}

\* The options a validator is constructed with.
RawOptions ==
    {[MinLength |-> 3, MinDiff |-> 2, MinDist |-> 1,
      Hashers |-> <<"fletcher">>,
      DictionaryPath |-> "/usr/share/dict", CheckHIBP |-> FALSE,
      MustContainDigit |-> FALSE, MustContainSymbol |-> FALSE],
     [MinLength |-> 2, MinDiff |-> 2, MinDist |-> 3,
      Hashers |-> <<"fletcher">>,
      DictionaryPath |-> "/usr/share/dict", CheckHIBP |-> TRUE,
      MustContainDigit |-> FALSE, MustContainSymbol |-> FALSE],
     [MinLength |-> 3, MinDiff |-> 2, MinDist |-> 0,
      Hashers |-> <<"fletcher", "shift">>,
      DictionaryPath |-> "/usr/share/dict", CheckHIBP |-> TRUE,
      MustContainDigit |-> TRUE, MustContainSymbol |-> TRUE],
     [MinLength |-> 0, MinDiff |-> 0, MinDist |-> -1, Hashers |-> <<>>,
      DictionaryPath |-> "", CheckHIBP |-> FALSE,
      MustContainDigit |-> FALSE, MustContainSymbol |-> FALSE],
     [MinLength |-> 2, MinDiff |-> 1, MinDist |-> 0, Hashers |-> <<>>,
      DictionaryPath |-> "", CheckHIBP |-> TRUE,
      MustContainDigit |-> FALSE, MustContainSymbol |-> FALSE],
     [MinLength |-> 1, MinDiff |-> 1, MinDist |-> 2, Hashers |-> <<"shift">>,
      DictionaryPath |-> "/usr/share/dict", CheckHIBP |-> FALSE,
      MustContainDigit |-> TRUE, MustContainSymbol |-> FALSE]}

\* The lines of the dictionary files: " a ", "Ab1", "b1§a" / "ab", "1a",
\* "A§" / none.
Dictionaries ==
    {<< <<32, 97, 32>>, <<65, 98, 49>>, <<98, 49, 167, 97>> >>,
     << <<97, 98>>, <<49, 97>>, <<65, 167>> >>,
     << >>}

\* The hex digests of the dictionary's words under the configured hashers.
HexDigests(options, dicts) ==
    {EncodeToString(hashsum(normalize(dicts[i]), options.Hashers[j])) :
        i \in 1..Len(dicts), j \in 1..Len(options.Hashers)}

Passwords(options, dicts) ==
    Strs(MaxLen) \cup OtherPasswords \cup HexDigests(options, dicts)

(***************************************************************************)
(* One validator used by one caller at a time                              *)
(***************************************************************************)

VARIABLES
    v,          \* the Validator
    dicts,      \* the lines of the files under options.DictionaryPath
    password,   \* the password the calls are made with
    hibp,       \* what the haveibeenpwned service answers for the password
    ret,        \* the last call of the single caller and what it returned
    pc,         \* concurrent callers: where each one is in its call
    op,         \* concurrent callers: the method each one called
    pos,        \* concurrent callers: the next line indexDictionaries reads
    res,        \* concurrent callers: the error each call returned
    buildRuns,  \* how many times the body of indexDictionaries was entered
    earlyRead   \* whether a lookup read the index before it was complete

vars == <<v, dicts, password, hibp, ret, pc, op, pos, res, buildRuns, earlyRead>>

callers == <<pc, op, pos, res, buildRuns, earlyRead>>

\* The number of concurrent callers.
NThreads == 2

Threads == 1..NThreads

NoCall == [op |-> "none", err |-> Nil, score |-> 0, hibpCalls |-> 0]

NoCallers ==
    /\ pc = [t \in Threads |-> "idle"]
    /\ op = [t \in Threads |-> "none"]
    /\ pos = [t \in Threads |-> 0]
    /\ res = [t \in Threads |-> Nil]
    /\ buildRuns = 0
    /\ earlyRead = FALSE

\* A validator as constructed, a dictionary directory (none is read when
\* DictionaryPath is empty), a password, and the service's answer (not
\* distinguished when CheckHIBP is off: the service is not part of the run).
Init ==
    /\ \E o \in RawOptions :
        /\ v = NewValidatorWithOpts(o)
        /\ dicts \in IF o.DictionaryPath = "" THEN {<<>>} ELSE Dictionaries
        /\ password \in Passwords(o, dicts)
        /\ hibp \in IF o.CheckHIBP THEN OracleAnswers ELSE {"not_found"}
    /\ ret = NoCall
    /\ NoCallers

\* v.Check(password)
CallCheck ==
    \E c \in Check(v, dicts, password, hibp) :
        /\ v' = c.v
        /\ ret' = [op |-> "Check", err |-> c.err, score |-> 0,
                   hibpCalls |-> c.hibpCalls]
        /\ UNCHANGED <<dicts, password, hibp, callers>>

\* v.Rate(password)
CallRate ==
    \E r \in Rate(v, dicts, password, hibp) :
        /\ v' = r.v
        /\ ret' = [op |-> "Rate", err |-> r.err, score |-> r.score,
                   hibpCalls |-> r.hibpCalls]
        /\ UNCHANGED <<dicts, password, hibp, callers>>

\* v.IndexDictionaries()
CallIndexDictionaries ==
    /\ v' = IndexDictionaries(v, dicts)
    /\ ret' = [NoCall EXCEPT !.op = "IndexDictionaries"]
    /\ UNCHANGED <<dicts, password, hibp, callers>>

Next == CallCheck \/ CallRate \/ CallIndexDictionaries

Spec == Init /\ [][Next]_vars

(***************************************************************************)
(* One validator shared by concurrent callers.  A call is cut where it     *)
(* meets the shared state: at once.Do (the done flag, then the mutex), at  *)
(* each line indexDictionaries indexes, and at the reads of the index.     *)
(***************************************************************************)

\* "ab1", a word of the first dictionary; "a1b1Ab"; "1".
SharedPasswords ==
    {<<97, 98, 49>>, <<97, 49, 98, 49, 65, 98>>, <<49>>}

InitOnce ==
    /\ \E o \in {r \in RawOptions : r.MinLength \in {2, 3} /\ r.MinDiff = 2} :
        /\ v = NewValidatorWithOpts(o)
        /\ dicts \in Dictionaries
        /\ hibp \in IF o.CheckHIBP THEN {"not_found", "found"} ELSE {"not_found"}
    /\ password \in SharedPasswords
    /\ ret = NoCall
    /\ NoCallers

\* A caller enters Check or Rate: the pre-dictionary checks, which read only
\* the options, and on passing them the call of foundInDictionaries.
BeginCheck(t, method) ==
    /\ pc[t] = "idle"
    /\ op' = [op EXCEPT ![t] = method]
    /\ LET pre == preDictionaryChecks(v.options, password)
       IN IF pre # Nil
          THEN /\ pc' = [pc EXCEPT ![t] = "done"]
               /\ res' = [res EXCEPT ![t] = pre]
          ELSE /\ pc' = [pc EXCEPT ![t] = "index"]
               /\ UNCHANGED res
    /\ UNCHANGED <<v, dicts, password, hibp, ret, pos, buildRuns, earlyRead>>

\* A caller enters IndexDictionaries.
BeginIndexDictionaries(t) ==
    /\ pc[t] = "idle"
    /\ op' = [op EXCEPT ![t] = "IndexDictionaries"]
    /\ pc' = [pc EXCEPT ![t] = "index"]
    /\ UNCHANGED <<v, dicts, password, hibp, ret, pos, res, buildRuns, earlyRead>>

\* IndexDictionaries calling v.indexDictionaries() itself, without the Once.
EnterIndexDictionariesNoOnce(t) ==
    /\ pc[t] = "index"
    /\ pc' = [pc EXCEPT ![t] = "build"]
    /\ pos' = [pos EXCEPT ![t] = 1]
    /\ buildRuns' = buildRuns + 1
    /\ UNCHANGED <<v, dicts, password, hibp, ret, op, res, earlyRead>>

\* IndexDictionaries: v.once.Do(v.indexDictionaries), up to Do's look at the
\* done flag.
EnterIndexDictionaries(t) ==
    /\ pc[t] = "index"
    /\ pc' = [pc EXCEPT ![t] = IF v.once.done = 1 THEN "indexed" ELSE "doSlow"]
    /\ UNCHANGED <<v, dicts, password, hibp, ret, op, pos, res, buildRuns, earlyRead>>

\* once.Do's slow path: take the mutex, and run the body if it has not run.
OnceDoSlow(t) ==
    /\ pc[t] = "doSlow"
    /\ v.once.m = 0
    /\ IF v.once.done = 0
       THEN /\ v' = [v EXCEPT !.once.m = t]
            /\ pc' = [pc EXCEPT ![t] = "build"]
            /\ pos' = [pos EXCEPT ![t] = 1]
            /\ buildRuns' = buildRuns + 1
       ELSE /\ pc' = [pc EXCEPT ![t] = "indexed"]
            /\ UNCHANGED <<v, pos, buildRuns>>
    /\ UNCHANGED <<dicts, password, hibp, ret, op, res, earlyRead>>

\* indexDictionaries: return at once without a DictionaryPath, else index
\* the next line, or return after the last one.
BuildStep(t) ==
    /\ pc[t] = "build"
    /\ IF v.options.DictionaryPath = "" \/ pos[t] > Len(dicts)
       THEN /\ pc' = [pc EXCEPT ![t] = "built"]
            /\ UNCHANGED <<v, pos>>
       ELSE /\ v' = indexWord(v, dicts[pos[t]])
            /\ pos' = [pos EXCEPT ![t] = pos[t] + 1]
            /\ UNCHANGED pc
    /\ UNCHANGED <<dicts, password, hibp, ret, op, res, buildRuns, earlyRead>>

\* The body returned: Do sets the done flag and releases the mutex.
OnceDone(t) ==
    /\ pc[t] = "built"
    /\ v' = [v EXCEPT !.once = [done |-> 1, m |-> 0]]
    /\ pc' = [pc EXCEPT ![t] = "indexed"]
    /\ UNCHANGED <<dicts, password, hibp, ret, op, pos, res, buildRuns, earlyRead>>

\* IndexDictionaries returned: a caller of IndexDictionaries is done; a
\* caller of Check or Rate reads the index and finishes its call.
AfterIndexDictionaries(t) ==
    /\ pc[t] = "indexed"
    /\ pc' = [pc EXCEPT ![t] = "done"]
    /\ IF op[t] = "IndexDictionaries"
       THEN UNCHANGED <<res, earlyRead>>
       ELSE /\ \E e \in lookup(v, password) :
                 res' = [res EXCEPT
                            ![t] = afterDictionary(v, e, password, hibp).err]
            /\ earlyRead' = (\/ earlyRead
                             \/ v.once.done = 0
                             \/ \E u \in Threads : pc[u] \in {"build", "built"})
    /\ UNCHANGED <<v, dicts, password, hibp, ret, op, pos, buildRuns>>

NextOnce ==
    \E t \in Threads :
        \/ BeginCheck(t, "Check")
        \/ BeginCheck(t, "Rate")
        \/ BeginIndexDictionaries(t)
        \/ EnterIndexDictionaries(t)
        \/ OnceDoSlow(t)
        \/ BuildStep(t)
        \/ OnceDone(t)
        \/ AfterIndexDictionaries(t)

SpecOnce == InitOnce /\ [][NextOnce]_vars

(***************************************************************************)
(* Properties of Check and Rate                                            *)
(***************************************************************************)

StructuralKinds ==
    <<"ErrEmpty", "ErrTooShort", "ErrTooFewChars", "ErrNoDigits",
      "ErrNoSymbols", "ErrTooSystematic">>

DictionaryKinds ==
    {"ErrDictionary", "ErrMangledDictionary", "ErrHashedDictionary"}

\* Which of the six pre-dictionary conditions a password meets, in the
\* order empty, too short, too few unique, no digit, no symbol, systematic.
Failing(options, pw) ==
    LET fails == <<isEmpty(pw), isTooShort(options, pw),
                   hasTooFewChars(options, pw), lacksDigit(options, pw),
                   lacksSymbol(options, pw), isTooSystematic(pw)>>
    IN {i \in 1..6 : fails[i]}

Min(S) == CHOOSE x \in S : \A y \in S : x <= y

\* C1: Check returns the reason of the first failing check in the order
\* empty, too short, too few unique characters, missing digit, missing
\* symbol, too systematic; it returns none of these reasons when none of
\* the checks fails, and a dictionary reason only then.
C1_FixedOrder ==
    ret.op = "Check" =>
        LET failing == Failing(v.options, password)
        IN /\ failing # {} => ret.err = Err(StructuralKinds[Min(failing)])
           /\ failing = {} =>
                 \A i \in 1..6 : ret.err.kind # StructuralKinds[i]
           /\ ret.err.kind \in DictionaryKinds => failing = {}

\* A Check of a password that is too short, has too few unique characters
\* and lacks a required symbol answered ErrTooShort.
C1_Witness ==
    /\ ret.op = "Check"
    /\ {2, 3, 5} \subseteq Failing(v.options, password)
    /\ ret.err.kind = "ErrTooShort"

\* C2: a password of fewer code points than MinLength is rejected as too
\* short whatever it holds (a blank one apart, which the check before it
\* rejects as empty).
C2_ShortInCodePoints ==
    (/\ ret.op = "Check"
     /\ ~ isEmpty(password)
     /\ Len(password) < v.options.MinLength)
        => ret.err.kind = "ErrTooShort"

\* The password is a line of the dictionary files that are read.
InSource(pw) ==
    /\ v.options.DictionaryPath # ""
    /\ \E i \in 1..Len(dicts) : dicts[i] = pw

\* C3: a word of the dictionary source, of at least MinLength characters
\* and passing every structural check, is rejected by Check as a
\* dictionary word, the error carrying the normalized word.
C3_SourceWordIsDictionary ==
    (/\ ret.op = "Check"
     /\ InSource(password)
     /\ Len(password) >= v.options.MinLength
     /\ Failing(v.options, password) = {})
        => ret.err = DictionaryError("ErrDictionary", normalize(password), 0)

\* The password is the hex digest of a word of the dictionary source under
\* a configured hasher.
IsHexDigest(pw) ==
    /\ v.options.DictionaryPath # ""
    /\ pw \in HexDigests(v.options, dicts)

\* The words of the source whose digest under a configured hasher has the
\* hex form pw.
DigestedWords(pw) ==
    {normalize(dicts[i]) : i \in
        {k \in 1..Len(dicts) :
            \E j \in 1..Len(v.options.Hashers) :
                EncodeToString(hashsum(normalize(dicts[k]),
                                       v.options.Hashers[j])) = pw}}

\* C4 as stated: a password equal to the hex digest of a word of the
\* source, under a configured hasher, is rejected by Check as a hashed
\* dictionary word.
C4_DigestIsHashedDictionary ==
    (ret.op = "Check" /\ IsHexDigest(password))
        => ret.err.kind = "ErrHashedDictionary"

\* C4 amended: such a password is rejected as a hashed dictionary word,
\* the error carrying a word with that digest, whenever the digest string
\* passes the pre-dictionary checks and is not itself, read forwards or
\* backwards, one of the indexed words; the word need not have passed the
\* length floor of the exact-match set.
C4_DigestPassingChecksIsHashedDictionary ==
    (/\ ret.op = "Check"
     /\ IsHexDigest(password)
     /\ Failing(v.options, password) = {}
     /\ normalize(password) \notin v.words
     /\ reverse(normalize(password)) \notin v.words)
        => /\ ret.err.kind = "ErrHashedDictionary"
           /\ ret.err.word \in DigestedWords(password)

\* A Check of the hex digest of a word below the length floor answered
\* ErrHashedDictionary with that word.
C4_Witness ==
    /\ ret.op = "Check"
    /\ IsHexDigest(password)
    /\ ret.err.kind = "ErrHashedDictionary"
    /\ ret.err.word \notin v.words
    /\ len(ret.err.word) < v.options.MinLength - v.options.MinDist

\* C5: Rate returns an error Check returns for the password on the same
\* validator, with score 0 when it is not nil, and returns nil exactly
\* when Check accepts.
C5_RateReturnsCheckError ==
    ret.op = "Rate" =>
        LET errs == {c.err : c \in Check(v, dicts, password, hibp)}
        IN /\ ret.err \in errs
           /\ ret.err # Nil => ret.score = 0
           /\ ret.err = Nil <=> errs = {Nil}

\* A Rate of a password the dictionary rejects, which would grade above 0,
\* returned 0 and the dictionary error.
C5_Witness ==
    /\ ret.op = "Rate"
    /\ ret.err.kind \in DictionaryKinds
    /\ rating(password) > 0
    /\ ret.score = 0

\* The score C6 states, length being the number of code points.
ClaimedScore(pw) ==
    LET length == Len(pw)
        c == runeCounts(pw)
        allLetters == IF length = c.letters + c.uLetters THEN 1 ELSE 0
        allDigits == IF length = c.numbers THEN 1 ELSE 0
        n == length * 4
             + (IF c.uLetters > 0 THEN (length - c.uLetters) * 2 ELSE 0)
             + (IF c.letters > 0 THEN (length - c.letters) * 2 ELSE 0)
             + c.numbers * 4
             + c.symbols * 6
             - allLetters * (c.letters + c.uLetters)
             - allDigits * c.numbers * 4
             - (length - countUniqueChars(pw)) * 4
             - countSystematicChars(pw) * 3
    IN IF n < 0 THEN 0 ELSE IF n > 100 THEN 100 ELSE n

\* C6: for a password Check accepts, Rate returns the stated formula over
\* the number of code points and the four class counts, which add up to
\* that number, and the score is within 0..100.
C6_ScoreFormula ==
    (ret.op = "Rate" /\ ret.err = Nil) =>
        LET c == runeCounts(password)
        IN /\ c.letters + c.uLetters + c.numbers + c.symbols = Len(password)
           /\ ret.score = ClaimedScore(password)
           /\ ret.score \in 0..100

\* C8: Check asks the haveibeenpwned service at most once, and exactly
\* when CheckHIBP is set and the password passed every pre-dictionary
\* check and the dictionary lookup; a breach error is returned only from
\* such a call.
C8_OracleLast ==
    ret.op = "Check" =>
        /\ ret.hibpCalls <= 1
        /\ ret.hibpCalls = 1 <=>
              /\ v.options.CheckHIBP
              /\ Failing(v.options, password) = {}
              /\ lookup(v, password) = {Nil}
        /\ ret.err.kind \in {"ErrHIBP", "ErrHIBPUnreachable"} =>
              ret.hibpCalls = 1

\* A Check that passed the dictionary asked the service and returned its
\* answer that the password is breached.
C8_Witness ==
    /\ ret.op = "Check"
    /\ ret.hibpCalls = 1
    /\ v.words # {}
    /\ ret.err.kind = "ErrHIBP"

\* mindist of the plain-field Validator's foundInDictionaries:
\* len(pw) / 2, at most minDist.
mindist(minDist, pw) ==
    IF len(pw) \div 2 > minDist THEN minDist ELSE len(pw) \div 2

\* C9: Check rejects a password as mangled against an indexed word only
\* at a distance of at most min(len(pw)/2, MinDist), the error carrying
\* the word and the distance; and a password it lets pass the dictionary
\* has no indexed word within that distance.
C9_HalfLengthThreshold ==
    LET pw == normalize(password)
        near(w) == \/ WagnerFischer(w, pw, 1, 1, 1)
                        <= mindist(v.options.MinDist, pw)
                   \/ WagnerFischer(w, reverse(pw), 1, 1, 1)
                        <= mindist(v.options.MinDist, pw)
    IN ret.op = "Check" =>
        /\ (ret.err.kind = "ErrMangledDictionary" /\ ret.err.word \in v.words)
              => /\ near(ret.err.word)
                 /\ ret.err.dist <= mindist(v.options.MinDist, pw)
        /\ (Failing(v.options, password) = {} /\ ret.err.kind \notin DictionaryKinds)
              => ~ \E w \in v.words : near(w)

\* The validator with every word of the source in its exact-match set.
WithAllWords(vb) ==
    IF vb.options.DictionaryPath = "" THEN vb
    ELSE [vb EXCEPT !.words = {normalize(dicts[i]) : i \in 1..Len(dicts)}]

\* C10: Check returns the same kind of result as it would with an index
\* holding every word of the source, whatever its length.
C10_LengthFloorKeepsOutcome ==
    ret.op = "Check" =>
        ret.err.kind \in
            {c.err.kind :
                c \in Check(WithAllWords(IndexDictionaries(v, dicts)),
                            dicts, password, hibp)}

(***************************************************************************)
(* Properties of the shared validator                                      *)
(***************************************************************************)

\* The validator with the index IndexDictionaries builds from nothing.
CompleteIndex ==
    IndexDictionaries([v EXCEPT !.once = [done |-> 0, m |-> 0],
                                !.wordsMaxLen = 0,
                                !.words = {},
                                !.hashedWords = [k \in {} |-> <<>>]],
                      dicts)

\* C7: among any concurrent calls of Check, Rate and IndexDictionaries the
\* body of indexDictionaries is entered at most once, and a caller is past
\* IndexDictionaries, where the index is read, only when that one build
\* has completed: no read is made before.
C7_BuildOnce ==
    /\ buildRuns <= 1
    /\ ~ earlyRead
    /\ \A t \in Threads :
          pc[t] = "indexed" =>
              /\ buildRuns = 1
              /\ v = CompleteIndex
              /\ \A u \in Threads : pc[u] \notin {"build", "built"}

\* One caller is part-way through the build while another, arrived during
\* it, waits for the mutex of the Once.
C7_Witness ==
    \E t \in Threads, u \in Threads :
        /\ t # u
        /\ pc[u] = "build"
        /\ pos[u] > 1
        /\ pc[t] = "doSlow"
        /\ op[t] \in {"Check", "Rate"}

=============================================================================
